---- MODULE Spec2Model ----
(***************************************************************************)
(* Model of the bit codec of codec.h / codec.cpp (namespace RIT::MD):      *)
(* BufferedBitWriter over a VectorSink or a RawBufferSink, BitReader over  *)
(* the bytes the sink received or over any byte range, and                 *)
(* ZstdStreamCompressor over a downstream sink.                            *)
(*                                                                         *)
(* A uint64_t is modelled by the set of the positions (0 = least           *)
(* significant) of its one bits, so that every shift, mask and truncation  *)
(* of the source is the same operation on 64 bits here.  An int64_t is the *)
(* same 64 bits read in two's complement.  A byte is a subset of 0..7.     *)
(***************************************************************************)
EXTENDS Integers, Sequences, FiniteSets, TLC

\* ------------------------------------------------------------------ bounds

\* Fields (calls of a put* operation) written to one stream.
MaxFields == 2

\* ZstdStreamCompressor::kOutCap, the size of the staging buffer out_buf.
\* The source has 128 * 1024; the model runs with a small one, so that a
\* drain that fills it is reached.
kOutCap == 2

\* output bytes the compression engine holds back at most
MaxHeld == 3

\* bytes in a block passed to ZstdStreamCompressor::write at most
MaxBlock == 2

\* calls made on a ZstdStreamCompressor
MaxZCalls == 2

\* calls made on a reader that decodes a given byte range
MaxReads == 3

\* calls made on a writer whose flush, align_to_byte and finish are followed
MaxCalls == 3

\* Capacity of BufferedBitWriter::buf.  The source has 64 * 1024; the model
\* runs with a small capacity so that the buffer-full path of write_byte is
\* taken, and the capacity is a bound of the model.
kBufCap == 4

\* ------------------------------------------------- 64-bit machine arithmetic

Word == 0..63

AllOnes == Word

Shl(x, n) == {i + n : i \in {j \in x : j + n <= 63}}

Shr(x, n) == {i - n : i \in {j \in x : j >= n}}

Xor64(a, b) == (a \ b) \cup (b \ a)

Not64(a) == Word \ a

\* The arithmetic operators go through the eight bytes of a word.

\* the number held by the 8 bits of x from position lo
Byte(x, lo) ==
    (IF lo \in x THEN 1 ELSE 0)
  + (IF lo + 1 \in x THEN 2 ELSE 0)
  + (IF lo + 2 \in x THEN 4 ELSE 0)
  + (IF lo + 3 \in x THEN 8 ELSE 0)
  + (IF lo + 4 \in x THEN 16 ELSE 0)
  + (IF lo + 5 \in x THEN 32 ELSE 0)
  + (IF lo + 6 \in x THEN 64 ELSE 0)
  + (IF lo + 7 \in x THEN 128 ELSE 0)

\* the n low bits of the number m, placed from position lo
Bits(m, lo, n) == {lo + j : j \in {i \in 0..(n - 1) : (m \div (2 ^ i)) % 2 = 1}}

Bytes(x) == [k \in 0..7 |-> Byte(x, 8 * k)]

RECURSIVE AddFrom(_, _, _, _)
AddFrom(A, B, k, c) ==
  IF k > 7 THEN {}
  ELSE LET t == A[k] + B[k] + c
       IN  Bits(t % 256, 8 * k, 8) \cup AddFrom(A, B, k + 1, t \div 256)

\* a + b modulo 2^64
Add64(a, b) == AddFrom(Bytes(a), Bytes(b), 0, 0)

\* -a modulo 2^64
Neg64(a) == Add64(Not64(a), {0})

\* a - b modulo 2^64
Sub64(a, b) == Add64(a, Neg64(b))

RECURSIVE ColumnSum(_, _, _, _)
ColumnSum(A, B, k, i) ==
  IF i > k THEN 0 ELSE A[i] * B[k - i] + ColumnSum(A, B, k, i + 1)

RECURSIVE MulFrom(_, _, _, _)
MulFrom(A, B, k, c) ==
  IF k > 7 THEN {}
  ELSE LET t == ColumnSum(A, B, k, 0) + c
       IN  Bits(t % 256, 8 * k, 8) \cup MulFrom(A, B, k + 1, t \div 256)

\* a * b modulo 2^64
Mul64(a, b) == MulFrom(Bytes(a), Bytes(b), 0, 0)

\* Long division of an unsigned 64-bit value by ten, most significant byte
\* first; r is the running remainder.
RECURSIVE Div10From(_, _, _)
Div10From(A, k, r) ==
  IF k < 0 THEN [q |-> {}, r |-> r]
  ELSE LET t    == 256 * r + A[k]
           rest == Div10From(A, k - 1, t % 10)
       IN  [q |-> rest.q \cup Bits(t \div 10, 8 * k, 8), r |-> rest.r]

\* unsigned v / 10 and v % 10
Div10(x) == Div10From(Bytes(x), 7, 0).q

Mod10(x) == Div10From(Bytes(x), 7, 0).r

IsNeg(x) == 63 \in x

\* int64 sv / 10 and sv % 10, truncating toward zero (the remainder is
\* returned by its magnitude: the source only tests it against zero)
SDiv10(x) == IF IsNeg(x) THEN Neg64(Div10(Neg64(x))) ELSE Div10(x)

SMod10(x) == IF IsNeg(x) THEN Mod10(Neg64(x)) ELSE Mod10(x)

\* unsigned a < b
Lt64(a, b) ==
  /\ a # b
  /\ LET d == Xor64(a, b) IN (CHOOSE i \in d : \A j \in d : j <= i) \in b

\* int64 a < b
SLt64(a, b) == IF IsNeg(a) # IsNeg(b) THEN IsNeg(a) ELSE Lt64(a, b)

\* the word of a natural number below 2^31, and the number of a word
\* below 2^8
FromNat(n) == Bits(n, 0, 31)

ToNat(x) == Byte(x, 0)

\* 10^k as a word, for k up to 19 (10^9 is the largest power of ten that
\* FromNat takes)
RECURSIVE TenTo(_)
TenTo(k) == IF k <= 9 THEN FromNat(10 ^ k) ELSE Mul64(FromNat(10 ^ 9), TenTo(k - 9))

\* static constexpr uint64_t POW10[16]: entry k is 10^k
POW10 == [k \in 0..15 |-> TenTo(k)]

\* --------------------------------------------------------------- zigzag

zigzag_encode_lost_sign(v) == Shl(v, 1)

zigzag_encode(v) == Xor64(Shl(v, 1), IF IsNeg(v) THEN AllOnes ELSE {})

zigzag_decode(z) == Xor64(Shr(z, 1), IF 0 \in z THEN AllOnes ELSE {})

\* --------------------------------------------------------------- writer

\* (b == 64) ? ~0ull : ((1ull << b) - 1)
mask(b) == IF b = 64 THEN AllOnes ELSE 0..(b - 1)

\* A sink is a record: its kind (the class behind the ISink&), its fields,
\* and calls, the ISink calls made on it so far (n: the bytes passed to
\* write), which the source does not store.

\* VectorSink::write: out.insert(out.end(), data, data + n)
VectorSink_write(sink, data) ==
  [sink EXCEPT !.out = sink.out \o data,
               !.calls = Append(sink.calls, [call |-> "write", n |-> Len(data)])]

\* RawBufferSink::write with the test  pos + n > cap + 1
RawBufferSink_write_off_by_one(sink, data) ==
  LET n  == Len(data)
      s1 == [sink EXCEPT !.calls = Append(sink.calls, [call |-> "write", n |-> n])]
  IN  IF sink.pos + n > sink.cap + 1
      THEN [sink |-> s1, exc |-> "RawBufferSink overflow"]
      ELSE [sink |-> [s1 EXCEPT !.dst = [i \in (DOMAIN sink.dst) \cup (sink.pos..(sink.pos + n - 1)) |->
                                           IF i >= sink.pos /\ i < sink.pos + n
                                           THEN data[i - sink.pos + 1] ELSE sink.dst[i]],
                                !.pos = sink.pos + n],
            exc |-> "none"]

\* RawBufferSink::write: returns the sink after the call and the exception
\* thrown.  dst is the memory written through the pointer dst: the cap bytes
\* of the caller's buffer, and whatever a memcpy beyond them would reach.
RawBufferSink_write(sink, data) ==
  LET n  == Len(data)
      s1 == [sink EXCEPT !.calls = Append(sink.calls, [call |-> "write", n |-> n])]
  IN  IF sink.pos + n > sink.cap
      THEN [sink |-> s1, exc |-> "RawBufferSink overflow"]
      ELSE [sink |-> [s1 EXCEPT !.dst = [i \in (DOMAIN sink.dst) \cup (sink.pos..(sink.pos + n - 1)) |->
                                           IF i >= sink.pos /\ i < sink.pos + n
                                           THEN data[i - sink.pos + 1] ELSE sink.dst[i]],
                                !.pos = sink.pos + n],
            exc |-> "none"]

\* sink.write(data, n) through the ISink&
ISink_write(sink, data) ==
  IF sink.kind = "RawBufferSink" THEN RawBufferSink_write(sink, data)
  ELSE [sink |-> VectorSink_write(sink, data), exc |-> "none"]

\* sink.flush() and sink.finish(): VectorSink and RawBufferSink do nothing
ISink_flush(sink) == [sink EXCEPT !.calls = Append(sink.calls, [call |-> "flush", n |-> 0])]

ISink_finish(sink) == [sink EXCEPT !.calls = Append(sink.calls, [call |-> "finish", n |-> 0])]

\* sink.write(buf.data(), pos); total_sz += pos; pos = 0;  An exception of
\* the sink leaves the call between the first and the second statement.
drain_buf(w) ==
  LET s == ISink_write(w.sink, [i \in 1..w.pos |-> w.buf[i - 1]])
  IN  IF s.exc # "none" THEN [w EXCEPT !.sink = s.sink, !.exc = s.exc]
      ELSE [w EXCEPT !.sink = s.sink, !.total_sz = w.total_sz + w.pos, !.pos = 0]

\* BufferedBitWriter::write_byte, on a writer record w (with the sink it
\* refers to in w.sink, and in w.exc the exception that is leaving the call
\* in progress).  With pos == kBufCap, buf[pos++] stores outside buf, which
\* C++ leaves undefined: the model goes no further than that store.
write_byte(w, b) ==
  IF w.pos >= kBufCap THEN [w EXCEPT !.exc = "store outside buf"]
  ELSE LET w1 == [w EXCEPT !.buf[w.pos] = b, !.pos = w.pos + 1]
       IN  IF w1.pos = kBufCap THEN drain_buf(w1) ELSE w1

\* the loop  while( bits >= 8 )  of put
RECURSIVE put_drain(_)
put_drain(w) ==
  IF w.bits >= 8
  THEN LET w1 == write_byte(w, w.acc \cap 0..7)
       IN  IF w1.exc # "none" THEN w1
           ELSE put_drain([w1 EXCEPT !.acc = Shr(w.acc, 8), !.bits = w.bits - 8])
  ELSE w

\* BufferedBitWriter::put.  acc is a uint64_t: the bits of (v & mask) << bits
\* beyond position 63 are lost.  (A put reached while an exception is
\* leaving the enclosing call is not executed.)
put(w, v, b) ==
  IF b = 0 \/ w.exc # "none" THEN w
  ELSE put_drain([w EXCEPT !.acc = w.acc \cup Shl(v \cap mask(b), w.bits),
                           !.bits = w.bits + b])

\* put_var looping while v > 0x80 instead of v >= 0x80
RECURSIVE put_var_late_stop(_, _)
put_var_late_stop(w, v) ==
  IF Lt64({7}, v)
  THEN put_var_late_stop(put(w, (v \cap 0..7) \cup {7}, 8), Shr(v, 7))
  ELSE put(w, v \cap 0..7, 8)

\* BufferedBitWriter::put_var(uint64_t); the narrower overloads widen v and
\* call this one
RECURSIVE put_var(_, _)
put_var(w, v) ==
  IF \E i \in v : i >= 7
  THEN put_var(put(w, (v \cap 0..7) \cup {7}, 8), Shr(v, 7))
  ELSE put(w, v \cap 0..7, 8)

\* the flag bit written as  put(v != 0, 1)
zero_flag_inverted(v) == IF v = {} THEN {} ELSE {0}

\* the flag bit  put(v == 0, 1)
zero_flag(v) == IF v = {} THEN {0} ELSE {}

put_var_zero(w, v) ==
  LET w1 == put(w, zero_flag(v), 1)
  IN  IF v = {} THEN w1 ELSE put_var(w1, v)

put_var_sign_zero(w, v) ==
  LET w1 == put(w, zero_flag(v), 1)
  IN  IF v = {} THEN w1 ELSE put_var(w1, zigzag_encode(v))

\* the loop stopping at k == 16, a count the 4-bit field cannot hold
RECURSIVE strip_zeros_cap16(_, _)
strip_zeros_cap16(v, k) ==
  IF Mod10(v) # 0 THEN [v |-> v, k |-> k]
  ELSE IF k + 1 = 16 THEN [v |-> Div10(v), k |-> k + 1]
  ELSE strip_zeros_cap16(Div10(v), k + 1)

\* the loop dividing on after the count has reached 15
RECURSIVE strip_zeros_lossy(_, _)
strip_zeros_lossy(v, k) ==
  IF Mod10(v) # 0 THEN [v |-> v, k |-> k]
  ELSE strip_zeros_lossy(Div10(v), IF k < 15 THEN k + 1 ELSE k)

\* the loop  for( ;; )  of put_var_dec_zeros: v with k zeros stripped so far
RECURSIVE strip_zeros(_, _)
strip_zeros(v, k) ==
  IF Mod10(v) # 0 THEN [v |-> v, k |-> k]
  ELSE IF k + 1 = 15 THEN [v |-> Div10(v), k |-> k + 1]
  ELSE strip_zeros(Div10(v), k + 1)

put_var_dec_zeros(w, v) ==
  LET w1 == put(w, zero_flag(v), 1)
  IN  IF v = {} THEN w1
      ELSE LET s == strip_zeros(v, 0)
           IN  put_var(put(w1, FromNat(s.k), 4), s.v)

\* the same loop of put_var_sign_dec_zeros, on an int64_t
RECURSIVE strip_zeros_signed(_, _)
strip_zeros_signed(sv, k) ==
  IF SMod10(sv) # 0 THEN [v |-> sv, k |-> k]
  ELSE IF k + 1 = 15 THEN [v |-> SDiv10(sv), k |-> k + 1]
  ELSE strip_zeros_signed(SDiv10(sv), k + 1)

put_var_sign_dec_zeros(w, sv) ==
  LET w1 == put(w, zero_flag(sv), 1)
  IN  IF sv = {} THEN w1
      ELSE LET s == strip_zeros_signed(sv, 0)
           IN  put_var(put(w1, FromNat(s.k), 4), zigzag_encode(s.v))

\* the assertion comparing v and base as signed values
assert_fails_signed(v, base, nd) == ~nd /\ SLt64(v, base)

\* assert( v >= base ): checked unless the build defines NDEBUG (nd)
assert_fails(v, base, nd) == ~nd /\ Lt64(v, base)

\* The base-relative overloads return the writer after the call, the value
\* returned and what stopped the call ("assert": the assertion aborted the
\* program before anything was written).
put_var_zero_base(w, v, base, nd) ==
  IF assert_fails(v, base, nd) THEN [w |-> w, ret |-> {}, thrown |-> "assert"]
  ELSE [w |-> put_var_zero(w, Sub64(v, base)), ret |-> v, thrown |-> "none"]

put_var_base(w, v, base, nd) ==
  IF assert_fails(v, base, nd) THEN [w |-> w, ret |-> {}, thrown |-> "assert"]
  ELSE [w |-> put_var(w, Sub64(v, base)), ret |-> v, thrown |-> "none"]

put_var_dec_zeros_base(w, v, base, nd) ==
  IF assert_fails(v, base, nd) THEN [w |-> w, ret |-> {}, thrown |-> "assert"]
  ELSE [w |-> put_var_dec_zeros(w, Sub64(v, base)), ret |-> v, thrown |-> "none"]

\* put_var_sign_dec_zeros(uint64_t v, uint64_t base): no assertion; v - base
\* is an unsigned difference, passed on as an int64_t
put_var_sign_dec_zeros_base(w, v, base, nd) ==
  [w |-> put_var_sign_dec_zeros(w, Sub64(v, base)), ret |-> v, thrown |-> "none"]

\* int64_t v - base overflows
sub_overflows(v, base) == IsNeg(v) # IsNeg(base) /\ IsNeg(Sub64(v, base)) # IsNeg(v)

\* Outcomes of a signed subtraction that overflows, which C++ leaves
\* undefined: the difference wraps modulo 2^64, or the operation traps.
SignedOverflowOutcomes == {"wrap", "trap"}

\* put_var_sign_zero(int64_t v, int64_t base): no assertion; v - base is a
\* signed difference
put_var_sign_zero_base(w, v, base, ovf) ==
  IF sub_overflows(v, base) /\ ovf = "trap" THEN [w |-> w, ret |-> {}, thrown |-> "trap"]
  ELSE [w |-> put_var_sign_zero(w, Sub64(v, base)), ret |-> v, thrown |-> "none"]

\* bits_written counting whole bytes only
bits_written_whole_bytes(w) == (w.total_sz + w.pos) * 8

bits_written(w) == (w.total_sz + w.pos) * 8 + w.bits

align_to_byte(w) ==
  IF w.bits # 0
  THEN LET w1 == write_byte(w, w.acc \cap 0..7)
       IN  IF w1.exc # "none" THEN w1 ELSE [w1 EXCEPT !.acc = {}, !.bits = 0]
  ELSE w

\* flush that first pads the stream to a byte boundary
flush_aligning(w) ==
  LET w0 == align_to_byte(w)
      w1 == IF w0.pos # 0 THEN drain_buf(w0) ELSE w0
  IN  IF w1.exc # "none" THEN w1 ELSE [w1 EXCEPT !.sink = ISink_flush(w1.sink)]

\* BufferedBitWriter::flush
flush(w) ==
  LET w1 == IF w.pos # 0 THEN drain_buf(w) ELSE w
  IN  IF w1.exc # "none" THEN w1 ELSE [w1 EXCEPT !.sink = ISink_flush(w1.sink)]

\* BufferedBitWriter::finish
finish(w) ==
  LET w1 == align_to_byte(w)
  IN  IF w1.exc # "none" THEN w1
      ELSE LET w2 == IF w1.pos # 0 THEN drain_buf(w1) ELSE w1
           IN  IF w2.exc # "none" THEN w2 ELSE [w2 EXCEPT !.sink = ISink_finish(w2.sink)]

\* --------------------------------------------------------------- reader

\* Outcomes of  acc >>= b  with b == 64, which C++ leaves undefined: the
\* shift count is taken modulo 64 (acc unchanged) or the word is cleared.
Shr64Outcomes == {"keep", "zero"}

\* the loop of get testing  p == end  before  bits < b
RECURSIVE get_fill_eager(_, _, _)
get_fill_eager(mem, r, b) ==
  IF r.p = r.end
  THEN [r EXCEPT !.exc = "bitstream underflow"]
  ELSE IF r.bits < b
       THEN get_fill_eager(mem, [r EXCEPT !.acc = r.acc \cup Shl(mem[r.p + 1], r.bits),
                                          !.p = r.p + 1,
                                          !.bits = r.bits + 8], b)
       ELSE r

\* the loop  while( bits < b )  of get, over the byte range mem
RECURSIVE get_fill(_, _, _)
get_fill(mem, r, b) ==
  IF r.bits < b
  THEN IF r.p = r.end
       THEN [r EXCEPT !.exc = "bitstream underflow"]
       ELSE get_fill(mem, [r EXCEPT !.acc = r.acc \cup Shl(mem[r.p + 1], r.bits),
                                    !.p = r.p + 1,
                                    !.bits = r.bits + 8], b)
  ELSE r

\* BitReader::get; returns the reader after the call and the value
get(mem, r, b, sh) ==
  IF b = 0 THEN [r |-> r, v |-> {}]
  ELSE LET r1 == get_fill(mem, r, b)
       IN  IF r1.exc # "none" THEN [r |-> r1, v |-> {}]
           ELSE [r |-> [r1 EXCEPT !.acc = IF b = 64
                                           THEN (IF sh = "keep" THEN r1.acc ELSE {})
                                           ELSE Shr(r1.acc, b),
                                  !.bits = r1.bits - b],
                 v |-> r1.acc \cap mask(b)]

\* get_var64 taking all 8 bits of a group as payload
RECURSIVE get_var64_from_keeps_flag(_, _, _, _)
get_var64_from_keeps_flag(mem, r, v, shift) ==
  LET g  == get(mem, r, 8, "keep")
      v1 == v \cup Shl(g.v, shift)
  IN  IF g.r.exc # "none" THEN [r |-> g.r, v |-> {}]
      ELSE IF 7 \notin g.v THEN [r |-> g.r, v |-> v1]
      ELSE IF shift + 7 >= 64 THEN [r |-> [g.r EXCEPT !.exc = "bad varint"], v |-> {}]
      ELSE get_var64_from_keeps_flag(mem, g.r, v1, shift + 7)

\* get_var64 giving up after nine groups
RECURSIVE get_var64_from_nine_groups(_, _, _, _)
get_var64_from_nine_groups(mem, r, v, shift) ==
  LET g  == get(mem, r, 8, "keep")
      v1 == v \cup Shl(g.v \cap 0..6, shift)
  IN  IF g.r.exc # "none" THEN [r |-> g.r, v |-> {}]
      ELSE IF 7 \notin g.v THEN [r |-> g.r, v |-> v1]
      ELSE IF shift + 7 >= 63 THEN [r |-> [g.r EXCEPT !.exc = "bad varint"], v |-> {}]
      ELSE get_var64_from_nine_groups(mem, g.r, v1, shift + 7)

\* BitReader::get_var64, from the group at bit position shift on.  Its
\* get(8) never shifts by 64.
RECURSIVE get_var64_from(_, _, _, _)
get_var64_from(mem, r, v, shift) ==
  LET g  == get(mem, r, 8, "keep")
      v1 == v \cup Shl(g.v \cap 0..6, shift)
  IN  IF g.r.exc # "none" THEN [r |-> g.r, v |-> {}]
      ELSE IF 7 \notin g.v THEN [r |-> g.r, v |-> v1]
      ELSE IF shift + 7 >= 64 THEN [r |-> [g.r EXCEPT !.exc = "bad varint"], v |-> {}]
      ELSE get_var64_from(mem, g.r, v1, shift + 7)

get_var64(mem, r) == get_var64_from(mem, r, {}, 0)

get_var64_zero(mem, r) ==
  LET f == get(mem, r, 1, "keep")
  IN  IF f.r.exc # "none" \/ f.v # {} THEN [r |-> f.r, v |-> {}]
      ELSE get_var64(mem, f.r)

get_var64_dec_zeros(mem, r) ==
  LET f == get(mem, r, 1, "keep")
  IN  IF f.r.exc # "none" \/ f.v # {} THEN [r |-> f.r, v |-> {}]
      ELSE LET k == get(mem, f.r, 4, "keep")
           IN  IF k.r.exc # "none" THEN [r |-> k.r, v |-> {}]
               ELSE LET g == get_var64(mem, k.r)
                    IN  IF g.r.exc # "none" THEN g
                        ELSE [r |-> g.r, v |-> Mul64(g.v, POW10[ToNat(k.v)])]

\* the signed getter without the zigzag decoding
get_var64_sign_dec_zeros_no_zigzag(mem, r) == get_var64_dec_zeros(mem, r)

get_var64_sign_dec_zeros(mem, r) ==
  LET f == get(mem, r, 1, "keep")
  IN  IF f.r.exc # "none" \/ f.v # {} THEN [r |-> f.r, v |-> {}]
      ELSE LET k == get(mem, f.r, 4, "keep")
           IN  IF k.r.exc # "none" THEN [r |-> k.r, v |-> {}]
               ELSE LET g == get_var64(mem, k.r)
                    IN  IF g.r.exc # "none" THEN g
                        ELSE [r |-> g.r, v |-> Mul64(zigzag_decode(g.v), POW10[ToNat(k.v)])]

get_var64_sign_zero(mem, r) ==
  LET f == get(mem, r, 1, "keep")
  IN  IF f.r.exc # "none" \/ f.v # {} THEN [r |-> f.r, v |-> {}]
      ELSE LET g == get_var64(mem, f.r)
           IN  IF g.r.exc # "none" THEN g
               ELSE [r |-> g.r, v |-> zigzag_decode(g.v)]

\* bits the reader has handed out so far
bits_read(r) == r.p * 8 - r.bits

\* ------------------------------------------------- ZstdStreamCompressor

\* The compression engine behind ZSTD_compressStream2 is not part of the
\* repository.  It is modelled by what the compressor sees of it: input
\* bytes consumed, output bytes stored in the staging buffer, the value
\* returned.  held counts the output bytes the engine holds back, ended
\* tells that it has begun to end the frame.  Output bytes are numbered in
\* the order the engine emits them.
\*
\* One call of the engine with rem input bytes left, in mode "continue",
\* "flush" or "end": the set of possible results, c input bytes consumed,
\* e output bytes stored, rc the value returned (the bytes still held) and
\* the engine afterwards.  A call makes progress: with input left it
\* consumes input or emits output, and when flushing or ending it emits
\* output as long as it holds any.  An engine that ends a frame emits one
\* byte more than it holds.
ZSTD_compressStream2(held, ended, rem, mode) ==
  IF mode = "continue"
  THEN {[c |-> c, e |-> e, rc |-> held + c - e, held |-> held + c - e, ended |-> ended] :
          <<c, e>> \in {x \in (0..rem) \X (0..kOutCap) :
                          /\ x[1] <= MaxHeld - held
                          /\ x[2] <= held + x[1]
                          /\ rem > 0 => x[1] + x[2] >= 1}}
  ELSE LET h == IF mode = "end" /\ ~ended THEN held + 1 ELSE held
       IN  {[c |-> 0, e |-> e, rc |-> h - e, held |-> h - e,
             ended |-> mode = "end" /\ h - e > 0] :
              e \in {x \in 0..kOutCap : x <= h /\ (h > 0 => x >= 1)}}

\* the staging buffer after the engine stored the e output bytes numbered
\* from emitted + 1 at its start
Staged(z, e) ==
  [i \in 1..kOutCap |-> IF i <= e THEN z.emitted + i ELSE z.out_buf[i]]

\* if( outb.pos ) down.write(out_buf.data(), outb.pos), after the engine
\* call with result x
drain(z, x) ==
  LET buf == Staged(z, x.e)
      z1  == [z EXCEPT !.out_buf = buf, !.emitted = z.emitted + x.e,
                       !.held = x.held, !.ended = x.ended, !.pos = z.pos + x.c]
  IN  IF x.e # 0
      THEN [z1 EXCEPT !.down = ISink_write(z.down, SubSeq(buf, 1, x.e)).sink]
      ELSE z1

\* the call in progress returns: it is recorded with the downstream calls
\* it made, the bytes the engine emitted during it, the last drain and the
\* last value the engine returned
return(z, last, rc, exc) ==
  [z EXCEPT !.op = IF exc = "none" THEN "idle" ELSE "failed",
            !.hist = Append(z.hist,
                       [op |-> z.op, size |-> z.size, pos |-> z.pos, last |-> last,
                        rc |-> rc, exc |-> exc,
                        calls |-> SubSeq(z.down.calls, z.d0 + 1, Len(z.down.calls)),
                        from |-> z.e0, to |-> z.emitted])]

\* throw std::runtime_error(ZSTD_getErrorName(rc))
throw_zstd(z) == return(z, 0, 0, "zstd error")

\* the test that ends the loop of write, without the test of the output
write_done_input_only(z, e) == z.pos = z.size

\* if( inb.pos == inb.size && outb.pos < outb.size ) break;
write_done(z, e) == z.pos = z.size /\ e < kOutCap

\* One iteration of the loop of ZstdStreamCompressor::write, for each
\* result of the engine call and for an error returned by it.
write_iteration(z) ==
  {throw_zstd(z)} \cup
  {LET z1 == drain(z, x)
   IN  IF write_done(z1, x.e) THEN return(z1, x.e, x.rc, "none") ELSE z1 :
     x \in ZSTD_compressStream2(z.held, z.ended, z.size - z.pos, "continue")}

\* if( outb.pos < outb.size ) break;
flush_done(e) == e < kOutCap

\* one iteration of the loop of ZstdStreamCompressor::flush; down.flush()
\* follows the loop
flush_iteration(z) ==
  {throw_zstd(z)} \cup
  {LET z1 == drain(z, x)
   IN  IF flush_done(x.e)
       THEN return([z1 EXCEPT !.down = ISink_flush(z1.down)], x.e, x.rc, "none")
       ELSE z1 :
     x \in ZSTD_compressStream2(z.held, z.ended, 0, "flush")}

\* the loop of finish left after the first drain
finish_done_at_once(rc) == TRUE

\* if( rc == 0 ) break;
finish_done(rc) == rc = 0

\* one iteration of the loop of ZstdStreamCompressor::finish; down.finish()
\* follows the loop
finish_iteration(z) ==
  {throw_zstd(z)} \cup
  {LET z1 == drain(z, x)
   IN  IF finish_done(x.rc)
       THEN return([z1 EXCEPT !.down = ISink_finish(z1.down)], x.e, x.rc, "none")
       ELSE z1 :
     x \in ZSTD_compressStream2(z.held, z.ended, 0, "end")}

\* a call op enters with a block of n input bytes (none for flush and
\* finish): ZSTD_inBuffer inb{ data, n, 0 }
enter(z, op, n) ==
  [z EXCEPT !.op = op, !.size = n, !.pos = 0, !.d0 = Len(z.down.calls), !.e0 = z.emitted]

\* ZstdStreamCompressor(downstream) over a sink, with a fresh engine
NewCompressor(down) ==
  [down |-> down, out_buf |-> [i \in 1..kOutCap |-> 0], held |-> 0, ended |-> FALSE,
   emitted |-> 0, op |-> "idle", size |-> 0, pos |-> 0, d0 |-> 0, e0 |-> 0, hist |-> <<>>]

\* ---------------------------------------------------------------- state

VARIABLES
  ndebug, \* the build defines NDEBUG: assert() checks nothing
  bw,     \* the BufferedBitWriter: buf, pos, total_sz, acc, bits, and its sink
  br,     \* the BitReader: p, end, acc, bits (exc: the exception it threw)
  pc,     \* "write": the stream is being written; "read": finish() was
          \* called and a BitReader reads the sink's bytes; "stopped": an
          \* assertion or a trap ended the program
  log,    \* the calls made on the writer, in order
  got,    \* what the reader returned for each of them, in order
  zc      \* the ZstdStreamCompressor: its engine, its staging buffer, the
          \* call in progress (op, with its input block) and its downstream

vars == <<ndebug, bw, br, pc, log, got, zc>>

\* BufferedBitWriter(sink) over an empty VectorSink
NewVectorSink == [kind |-> "VectorSink", out |-> <<>>, calls |-> <<>>]

\* BufferedBitWriter(sink)
WriterOn(sink) ==
  [sink |-> sink, buf |-> [i \in 0..(kBufCap - 1) |-> {}],
   pos |-> 0, total_sz |-> 0, acc |-> {}, bits |-> 0, exc |-> "none"]

NewWriter == WriterOn(NewVectorSink)

\* A writer over an empty VectorSink; nothing is read before finish().
Start ==
  /\ bw = NewWriter
  /\ br = [p |-> 0, end |-> 0, acc |-> {}, bits |-> 0, exc |-> "none"]
  /\ pc = "write"
  /\ log = <<>>
  /\ got = <<>>
  /\ zc = NewCompressor(NewVectorSink)

\* the build checks its assertions
Init == ndebug = FALSE /\ Start

\* a build with or without NDEBUG
InitAnyBuild == ndebug \in BOOLEAN /\ Start

\* A call op(v, b) or op(v, base) on the writer, which left it as res.w,
\* recorded with the bit positions of the stream it started and ended at.
Write(op, v, b, based, base, res) ==
  /\ pc = "write"
  /\ Len(log) < MaxFields
  /\ bw' = res.w
  /\ log' = Append(log, [op |-> op, v |-> v, b |-> b, based |-> based, base |-> base,
                         ret |-> res.ret, thrown |-> res.thrown,
                         from |-> bits_written(bw), to |-> bits_written(res.w)])
  /\ pc' = IF res.thrown = "none" THEN pc ELSE "stopped"
  /\ UNCHANGED <<ndebug, br, got, zc>>

Plain(w) == [w |-> w, ret |-> {}, thrown |-> "none"]

Put(v, b) == Write("put", v, b, FALSE, {}, Plain(put(bw, v, b)))

PutVar(v) == Write("put_var", v, 0, FALSE, {}, Plain(put_var(bw, v)))

PutVarZero(v) == Write("put_var_zero", v, 0, FALSE, {}, Plain(put_var_zero(bw, v)))

PutVarSignZero(v) ==
  Write("put_var_sign_zero", v, 0, FALSE, {}, Plain(put_var_sign_zero(bw, v)))

PutVarDecZeros(v) ==
  Write("put_var_dec_zeros", v, 0, FALSE, {}, Plain(put_var_dec_zeros(bw, v)))

PutVarSignDecZeros(v) ==
  Write("put_var_sign_dec_zeros", v, 0, FALSE, {}, Plain(put_var_sign_dec_zeros(bw, v)))

PutVarBase(v, base) ==
  Write("put_var", v, 0, TRUE, base, put_var_base(bw, v, base, ndebug))

PutVarZeroBase(v, base) ==
  Write("put_var_zero", v, 0, TRUE, base, put_var_zero_base(bw, v, base, ndebug))

PutVarDecZerosBase(v, base) ==
  Write("put_var_dec_zeros", v, 0, TRUE, base, put_var_dec_zeros_base(bw, v, base, ndebug))

PutVarSignDecZerosBase(v, base) ==
  Write("put_var_sign_dec_zeros", v, 0, TRUE, base,
        put_var_sign_dec_zeros_base(bw, v, base, ndebug))

PutVarSignZeroBase(v, base) ==
  \E ovf \in SignedOverflowOutcomes :
    Write("put_var_sign_zero", v, 0, TRUE, base, put_var_sign_zero_base(bw, v, base, ovf))

\* finish(), then BitReader(out.data(), out.data() + out.size())
Finish ==
  /\ pc = "write"
  /\ bw' = finish(bw)
  /\ br' = [p |-> 0, end |-> Len(bw'.sink.out), acc |-> {}, bits |-> 0, exc |-> "none"]
  /\ pc' = "read"
  /\ UNCHANGED <<ndebug, log, got, zc>>

\* The reader decodes the next field with the getter that matches the call
\* that wrote it; for a base-relative call the caller adds base to the value.
Read(op, g) ==
  /\ pc = "read"
  /\ br.exc = "none"
  /\ Len(got) < Len(log)
  /\ log[Len(got) + 1].op = op
  /\ br' = g.r
  /\ got' = Append(got, [v |-> g.v, sum |-> Add64(g.v, log[Len(got) + 1].base),
                         from |-> bits_read(br), to |-> bits_read(g.r),
                         exc |-> g.r.exc])
  /\ UNCHANGED <<ndebug, bw, pc, log, zc>>

Next1 == IF Len(got) < Len(log) THEN log[Len(got) + 1] ELSE [b |-> 0]

Get == \E sh \in Shr64Outcomes : Read("put", get(bw.sink.out, br, Next1.b, sh))

GetVar64 == Read("put_var", get_var64(bw.sink.out, br))

GetVar64Zero == Read("put_var_zero", get_var64_zero(bw.sink.out, br))

GetVar64SignZero == Read("put_var_sign_zero", get_var64_sign_zero(bw.sink.out, br))

GetVar64DecZeros == Read("put_var_dec_zeros", get_var64_dec_zeros(bw.sink.out, br))

GetVar64SignDecZeros ==
  Read("put_var_sign_dec_zeros", get_var64_sign_dec_zeros(bw.sink.out, br))

\* ----------------------------------------------------------- input values

Zero == {}

One == {0}

Two == {1}

Three == {0, 1}

Five == {0, 2}

MinusOne == AllOnes

MinusTwo == AllOnes \ {0}

Int64Min == {63}

Int64Max == 0..62

TwoTo7 == {7}

ThreeHundred == FromNat(300)

TenTo16 == TenTo(16)

MinusTenTo16 == Neg64(TenTo16)

TenTo19 == TenTo(19)

\* put: values and widths; a width of 57 or more after a partial byte needs
\* more than 64 accumulator bits
PutValues == {One, Five, Int64Min, AllOnes}

PutWidths == {0, 1, 3, 8, 57, 64}

NextPut ==
  \/ \E v \in PutValues, b \in PutWidths : Put(v, b)
  \/ Finish
  \/ Get

SpecPut == Init /\ [][NextPut]_vars

\* the variable-length encodings, each after any pending bit offset
OffsetWidths == {1, 7}

VarValues == {Zero, TwoTo7, Int64Min, AllOnes}

ZeroFlagValues == {Zero, AllOnes}

SignValues == {Zero, One, MinusOne, MinusTwo, Int64Min, Int64Max}

DecValues == {Zero, ThreeHundred, TenTo16, TenTo19}

SignDecValues == {Zero, ThreeHundred, MinusTenTo16, Int64Min, Int64Max}

NextVar ==
  \/ \E b \in OffsetWidths : Put(AllOnes, b)
  \/ \E v \in VarValues : PutVar(v)
  \/ \E v \in ZeroFlagValues : PutVarZero(v)
  \/ \E v \in SignValues : PutVarSignZero(v)
  \/ \E v \in DecValues : PutVarDecZeros(v)
  \/ \E v \in SignDecValues : PutVarSignDecZeros(v)
  \/ Finish
  \/ Get
  \/ GetVar64
  \/ GetVar64Zero
  \/ GetVar64SignZero
  \/ GetVar64DecZeros
  \/ GetVar64SignDecZeros

SpecVar == Init /\ [][NextVar]_vars

\* the base-relative overloads: <<value, base>> with value above, equal to
\* and below base, read as unsigned and as signed
BasePairs ==
  {<<ThreeHundred, One>>, <<One, One>>, <<TenTo16, Zero>>, <<One, ThreeHundred>>,
   <<MinusOne, One>>, <<Int64Max, MinusOne>>}

NextBase ==
  \/ \E b \in OffsetWidths : Put(AllOnes, b)
  \/ \E p \in BasePairs : PutVarBase(p[1], p[2])
  \/ \E p \in BasePairs : PutVarZeroBase(p[1], p[2])
  \/ \E p \in BasePairs : PutVarDecZerosBase(p[1], p[2])
  \/ \E p \in BasePairs : PutVarSignDecZerosBase(p[1], p[2])
  \/ \E p \in BasePairs : PutVarSignZeroBase(p[1], p[2])
  \/ Finish
  \/ Get
  \/ GetVar64
  \/ GetVar64Zero
  \/ GetVar64SignZero
  \/ GetVar64DecZeros
  \/ GetVar64SignDecZeros

SpecBase == InitAnyBuild /\ [][NextBase]_vars

\* ---------------------------------------------------------------- claims

\* the fields written by op that the reader has read
Fields(op) == {i \in 1..Len(got) : log[i].op = op}

\* bit n of the byte stream the sink holds
StreamBit(n) == (n % 8) \in bw.sink.out[(n \div 8) + 1]

BitLength(v) == IF v = {} THEN 0 ELSE 1 + (CHOOSE i \in v : \A j \in v : j <= i)

\* max(1, ceil(bitlength(v) / 7))
Groups(v) == IF v = {} THEN 1 ELSE (BitLength(v) + 6) \div 7

\* The stream bits from..to-1 are the base-128 groups of v: 7 payload bits
\* each, least significant group first, bit 7 set iff another group follows.
IsVarint(v, from, to) ==
  /\ to - from = 8 * Groups(v)
  /\ \A g \in 0..(Groups(v) - 1) :
       /\ \A j \in 0..6 : StreamBit(from + 8 * g + j) <=> (7 * g + j) \in v
       /\ StreamBit(from + 8 * g + 7) <=> g < Groups(v) - 1

\* the number of trailing decimal zero digits of v # 0, and v / 10^k
RECURSIVE TrailingZeros(_)
TrailingZeros(v) ==
  LET d == Div10From(Bytes(v), 7, 0) IN IF d.r # 0 THEN 0 ELSE 1 + TrailingZeros(d.q)

RECURSIVE DivTenTo(_, _)
DivTenTo(v, k) ==
  IF k = 0 THEN v
  ELSE LET q == Div10(v) IN IF q = {} THEN {} ELSE DivTenTo(q, k - 1)

Min(a, b) == IF a < b THEN a ELSE b

\* C1: every put(value, width), whatever the widths before it, is read back
\* by get(width) as value & mask(width), in the order written.
C1_PutGetRoundTrip ==
  \A i \in Fields("put") :
    /\ got[i].exc = "none"
    /\ got[i].v = log[i].v \cap mask(log[i].b)

\* C2: get_var64() on the bits put_var(v) wrote, at any bit offset of the
\* stream, returns v and consumes exactly those bits.
C2_VarintRoundTrip ==
  \A i \in Fields("put_var") :
    /\ got[i].exc = "none"
    /\ got[i].v = log[i].v
    /\ got[i].from = log[i].from
    /\ got[i].to = log[i].to

C2_Witness ==
  \E i \in Fields("put_var") :
    /\ log[i].v = AllOnes
    /\ log[i].from % 8 # 0
    /\ got[i].v = AllOnes
    /\ got[i].to = log[i].to

\* C3: put_var(v) emits max(1, ceil(bitlength(v)/7)) groups of 8 bits, at
\* most 10, with the payload of v in 7-bit groups from the least significant
\* and bit 7 of a group set iff another group follows.
C3_VarintGroups ==
  \A i \in Fields("put_var") :
    /\ IsVarint(log[i].v, log[i].from, log[i].to)
    /\ log[i].to - log[i].from <= 8 * 10

C3_Witness ==
  \E i \in Fields("put_var") :
    /\ log[i].v = AllOnes
    /\ log[i].to - log[i].from = 80
    /\ log[i].from % 8 # 0

\* C4: zigzag_decode inverts zigzag_encode, zigzag_encode is injective and
\* maps 0, -1, 1, -2 to 0, 1, 2, 3, and get_var64_sign_zero() returns what
\* put_var_sign_zero(v) was given.
C4_Zigzag ==
  /\ \A i \in Fields("put_var_sign_zero") :
       /\ zigzag_decode(zigzag_encode(log[i].v)) = log[i].v
       /\ got[i].exc = "none"
       /\ got[i].v = log[i].v
       /\ log[i].v = Zero => zigzag_encode(log[i].v) = Zero
       /\ log[i].v = MinusOne => zigzag_encode(log[i].v) = One
       /\ log[i].v = One => zigzag_encode(log[i].v) = Two
       /\ log[i].v = MinusTwo => zigzag_encode(log[i].v) = Three
  /\ \A i, j \in Fields("put_var_sign_zero") :
       zigzag_encode(log[i].v) = zigzag_encode(log[j].v) => log[i].v = log[j].v

C4_Witness ==
  \E i, j \in Fields("put_var_sign_zero") :
    /\ log[i].v = Int64Min
    /\ got[i].v = Int64Min
    /\ log[j].v = MinusOne
    /\ got[j].v = MinusOne

\* C5: for v # 0, put_var_dec_zeros(v) writes flag bit 0, the 4-bit count
\* k = min(trailing decimal zeros of v, 15), then put_var(v / 10^k); the
\* reader returns (v / 10^k) * 10^k: v when v has at most 15 trailing zeros,
\* (v / 10^15) * 10^15 when it has more.
C5_DecZeros ==
  \A i \in Fields("put_var_dec_zeros") :
    log[i].v # Zero =>
      LET v  == log[i].v
          tz == TrailingZeros(v)
          k  == Min(tz, 15)
          q  == DivTenTo(v, k)
      IN  /\ ~StreamBit(log[i].from)
          /\ \A j \in 0..3 : StreamBit(log[i].from + 1 + j) <=> j \in FromNat(k)
          /\ IsVarint(q, log[i].from + 5, log[i].to)
          /\ got[i].exc = "none"
          /\ got[i].v = Mul64(q, POW10[k])
          /\ tz <= 15 => got[i].v = v
          /\ tz > 15 => k = 15

C5_Witness ==
  \E i, j \in Fields("put_var_dec_zeros") :
    /\ log[i].v = ThreeHundred
    /\ got[i].v = ThreeHundred
    /\ log[j].v = TenTo19
    /\ got[j].exc = "none"

\* C6 as stated: a value with more than 15 trailing decimal zeros is not
\* reconstructed by get_var64_dec_zeros() after put_var_dec_zeros(v).
C6_LossyBeyondCap ==
  \A i \in Fields("put_var_dec_zeros") :
    (log[i].v # Zero /\ TrailingZeros(log[i].v) > 15) => got[i].v # log[i].v

\* C6 as amended: a value with more than 15 trailing decimal zeros is stored
\* with count 15 and a remainder that still ends in a zero, and
\* get_var64_dec_zeros() reconstructs it exactly.
C6_ExactBeyondCap ==
  \A i \in Fields("put_var_dec_zeros") :
    (log[i].v # Zero /\ TrailingZeros(log[i].v) > 15) =>
      /\ \A j \in 0..3 : StreamBit(log[i].from + 1 + j)
      /\ Mod10(DivTenTo(log[i].v, 15)) = 0
      /\ got[i].exc = "none"
      /\ got[i].v = log[i].v

C6_Witness ==
  \E i \in Fields("put_var_dec_zeros") :
    /\ log[i].v = TenTo16
    /\ got[i].v = TenTo16

\* C7: get_var64_sign_dec_zeros() on the bits put_var_sign_dec_zeros(v)
\* wrote returns v, for negative values and the int64 extremes too.
C7_SignDecZerosRoundTrip ==
  \A i \in Fields("put_var_sign_dec_zeros") :
    /\ got[i].exc = "none"
    /\ got[i].v = log[i].v
    /\ got[i].to = log[i].to

C7_Witness ==
  \E i, j \in Fields("put_var_sign_dec_zeros") :
    /\ log[i].v = MinusTenTo16
    /\ got[i].v = MinusTenTo16
    /\ log[j].v = Int64Min
    /\ got[j].v = Int64Min

ZeroFlagged ==
  {"put_var_zero", "put_var_sign_zero", "put_var_dec_zeros", "put_var_sign_dec_zeros"}

\* C8: each zero-flagged encoding writes 0 as the single bit 1, and its
\* getter returns 0 having consumed that one bit; put_var_zero of a non-zero
\* value writes, and get_var64_zero consumes, 1 + 8 * groups(value) bits; the
\* field that follows is read from the bit position it was written at.
C8_ZeroFlag ==
  \A i \in 1..Len(got) :
    /\ (log[i].op \in ZeroFlagged /\ log[i].v = Zero) =>
         /\ log[i].to = log[i].from + 1
         /\ StreamBit(log[i].from)
         /\ got[i].exc = "none"
         /\ got[i].v = Zero
         /\ got[i].from = log[i].from
         /\ got[i].to = got[i].from + 1
    /\ (log[i].op = "put_var_zero" /\ log[i].v # Zero) =>
         /\ ~StreamBit(log[i].from)
         /\ log[i].to = log[i].from + 1 + 8 * Groups(log[i].v)
         /\ got[i].from = log[i].from
         /\ got[i].to = got[i].from + 1 + 8 * Groups(log[i].v)
    /\ (i > 1 /\ log[i - 1].op \in ZeroFlagged) => got[i].from = log[i].from

C8_Witness ==
  \E i \in 2..Len(got) :
    /\ log[i - 1].op = "put_var_zero"
    /\ log[i - 1].v = Zero
    /\ log[i].op = "put_var_zero"
    /\ log[i].v = AllOnes
    /\ got[i].v = AllOnes

UnsignedBased == {"put_var", "put_var_zero", "put_var_dec_zeros", "put_var_sign_dec_zeros"}

\* value >= base, in the type of the overload's parameters
AtLeastBase(c) ==
  IF c.op = "put_var_sign_zero" THEN ~SLt64(c.v, c.base) ELSE ~Lt64(c.v, c.base)

\* the bytes the non-based form of op writes for d on a new writer
Alone(op, d) ==
  finish(CASE op = "put_var" -> put_var(NewWriter, d)
           [] op = "put_var_zero" -> put_var_zero(NewWriter, d)
           [] op = "put_var_sign_zero" -> put_var_sign_zero(NewWriter, d)
           [] op = "put_var_dec_zeros" -> put_var_dec_zeros(NewWriter, d)
           [] op = "put_var_sign_dec_zeros" -> put_var_sign_dec_zeros(NewWriter, d)).sink.out

\* the bits c appended are those of the bytes alone, which hold n bits more
\* than padding
SameBits(c, alone) ==
  /\ (c.to - c.from + 7) \div 8 = Len(alone)
  /\ \A j \in 0..(c.to - c.from - 1) :
       StreamBit(c.from + j) <=> (j % 8) \in alone[(j \div 8) + 1]
  /\ \A j \in (c.to - c.from)..(8 * Len(alone) - 1) : (j % 8) \notin alone[(j \div 8) + 1]

\* C9: a base-relative call with value >= base appends the bits of the
\* non-based form for value - base and returns value, and the matching
\* getter's result plus base is value.
C9_BaseRelative ==
  \A i \in 1..Len(log) :
    (log[i].based /\ AtLeastBase(log[i])) =>
      /\ log[i].thrown = "none"
      /\ log[i].ret = log[i].v
      /\ i <= Len(got) =>
           /\ SameBits(log[i], Alone(log[i].op, Sub64(log[i].v, log[i].base)))
           /\ got[i].exc = "none"
           /\ got[i].sum = log[i].v

\* C10 as stated: every base-relative overload with unsigned parameters
\* rejects value < base and appends nothing.
C10_AllUnsignedChecked ==
  \A i \in 1..Len(log) :
    (log[i].based /\ log[i].op \in UnsignedBased /\ Lt64(log[i].v, log[i].base)) =>
      /\ log[i].thrown = "assert"
      /\ log[i].to = log[i].from

\* C10 as amended: in a build that checks assertions, put_var(v, base),
\* put_var_zero(v, base) and put_var_dec_zeros(v, base) stop the program on
\* value < base before a bit is appended; with NDEBUG they check nothing
\* and append the encoding of value - base modulo 2^64;
\* put_var_sign_dec_zeros(v, base) checks nothing in either build: it
\* appends the signed encoding of the wrapped difference and returns value,
\* and the reader's result plus base is value.
C10_AssertedOverloads ==
  \A i \in 1..Len(log) :
    (log[i].based /\ log[i].op \in UnsignedBased /\ Lt64(log[i].v, log[i].base)) =>
      IF log[i].op = "put_var_sign_dec_zeros" \/ ndebug
      THEN /\ log[i].thrown = "none"
           /\ log[i].to > log[i].from
           /\ log[i].ret = log[i].v
           /\ i <= Len(got) =>
                /\ got[i].exc = "none"
                /\ got[i].v = Sub64(log[i].v, log[i].base)
                /\ got[i].sum = log[i].v
      ELSE /\ log[i].thrown = "assert"
           /\ log[i].to = log[i].from
           /\ bits_written(bw) = log[i].from
           /\ pc = "stopped"

C10_Witness ==
  \E i \in 1..Len(log) :
    /\ log[i].based
    /\ log[i].op = "put_var_dec_zeros"
    /\ Lt64(log[i].v, log[i].base)
    /\ log[i].thrown = "assert"
    /\ log[i].from % 8 # 0
    /\ pc = "stopped"

\* ------------------------------------------------- the writer's lifecycle

\* A public call on the writer that left it as w1, recorded with the writer
\* before and after it.  The caller may catch an exception of the sink and
\* go on using the writer; nothing may follow a store outside buf.
Call(op, v, b, w1) ==
  /\ pc = "write"
  /\ bw' = w1
  /\ log' = Append(log, [op |-> op, v |-> v, b |-> b, based |-> FALSE, base |-> {},
                         ret |-> {}, thrown |-> w1.exc,
                         from |-> bits_written(bw), to |-> bits_written(w1),
                         pre |-> bw, post |-> w1])
  /\ pc' = IF w1.exc = "store outside buf" THEN "stopped"
           ELSE IF op = "finish" THEN "closed" ELSE pc
  /\ UNCHANGED <<ndebug, br, got, zc>>

\* the writer as a call finds it: no exception is in flight
Entered == [bw EXCEPT !.exc = "none"]

CallPut(v, b) == Len(log) < MaxCalls /\ Call("put", v, b, put(Entered, v, b))

CallPutVar(v) == Len(log) < MaxCalls /\ Call("put_var", v, 0, put_var(Entered, v))

CallPutVarZero(v) ==
  Len(log) < MaxCalls /\ Call("put_var_zero", v, 0, put_var_zero(Entered, v))

CallFlush == Len(log) < MaxCalls /\ Call("flush", {}, 0, flush(Entered))

CallAlignToByte ==
  Len(log) < MaxCalls /\ Call("align_to_byte", {}, 0, align_to_byte(Entered))

CallFinish == Call("finish", {}, 0, finish(Entered))

\* values and widths for the lifecycle: a partial byte, a byte, and a word
\* that fills the buffer
LifePuts == {<<Five, 3>>, <<One, 0>>, <<ThreeHundred, 8>>, <<AllOnes, 64>>}

LifeVarValues == {Zero, TwoTo7}

NextWriter ==
  \/ \E p \in LifePuts : CallPut(p[1], p[2])
  \/ \E v \in LifeVarValues : CallPutVar(v)
  \/ \E v \in LifeVarValues : CallPutVarZero(v)
  \/ CallFlush
  \/ CallAlignToByte
  \/ CallFinish

SpecWriter == Init /\ [][NextWriter]_vars

\* the bits a call appends, by its arguments alone
Width(e) ==
  CASE e.op = "put" -> e.b
    [] e.op = "put_var" -> 8 * Groups(e.v)
    [] e.op = "put_var_zero" -> IF e.v = {} THEN 1 ELSE 1 + 8 * Groups(e.v)
    [] OTHER -> 0

RECURSIVE SumWidths(_)
SumWidths(l) == IF l = <<>> THEN 0 ELSE Width(l[1]) + SumWidths(Tail(l))

\* no call so far has padded the stream
NoPadding == \A i \in 1..Len(log) : log[i].op \notin {"align_to_byte", "finish"}

\* C11: after any sequence of put / put_var* / flush calls, bits_written()
\* is the sum of the bit widths those calls appended, and it is (bytes the
\* destination holds + bytes buffered) * 8 + pending bits, with the pending
\* bits in 0..7, also when the buffer was handed on because it was full.
C11_BitAccounting ==
  NoPadding =>
    /\ bits_written(bw) = SumWidths(log)
    /\ bits_written(bw) = (Len(bw.sink.out) + bw.pos) * 8 + bw.bits
    /\ bw.bits \in 0..7

C11_Witness ==
  /\ NoPadding
  /\ \E i \in 1..Len(log) : log[i].op = "flush"
  /\ Len(bw.sink.out) > kBufCap
  /\ bw.pos > 0
  /\ bw.bits > 0

\* the calls of l other than flush, made one after the other on writer w
Apply(w, e) ==
  CASE e.op = "put" -> put(w, e.v, e.b)
    [] e.op = "put_var" -> put_var(w, e.v)
    [] e.op = "put_var_zero" -> put_var_zero(w, e.v)
    [] e.op = "align_to_byte" -> align_to_byte(w)
    [] e.op = "finish" -> finish(w)
    [] OTHER -> w

RECURSIVE Replay(_, _)
Replay(w, l) == IF l = <<>> THEN w ELSE Replay(Apply(w, l[1]), Tail(l))

Buffered(w) == [k \in 1..w.pos |-> w.buf[k - 1]]

\* C12: flush() leaves the accumulator, the pending bit count and
\* bits_written() as they were, hands the buffered bytes to the destination
\* (none stay buffered, the destination grows by as many) and then calls the
\* destination's flush; the next put continues at the same bit offset, and
\* after finish() the destination holds the bytes it would hold had no
\* flush() been called.
C12_FlushKeepsBits ==
  /\ \A i \in 1..Len(log) :
       log[i].op = "flush" =>
         LET a == log[i].pre
             z == log[i].post
         IN  /\ z.acc = a.acc
             /\ z.bits = a.bits
             /\ bits_written(z) = bits_written(a)
             /\ z.pos = 0
             /\ z.sink.out = a.sink.out \o Buffered(a)
             /\ z.total_sz = a.total_sz + a.pos
             /\ Len(z.sink.calls) = Len(a.sink.calls) + (IF a.pos > 0 THEN 2 ELSE 1)
             /\ z.sink.calls[Len(z.sink.calls)].call = "flush"
             /\ i < Len(log) => log[i + 1].from = log[i].to
  /\ pc = "closed" => bw.sink.out = Replay(NewWriter, log).sink.out

C12_Witness ==
  /\ pc = "closed"
  /\ \E i \in 1..(Len(log) - 1) :
       /\ log[i].op = "flush"
       /\ log[i].pre.bits > 0
       /\ log[i].pre.pos > 0
       /\ log[i + 1].op = "put"
       /\ log[i + 1].b = 3

\* the stream holds, at the bits a call appended, what the call was given
Delivered(e) ==
  CASE e.op = "put" -> \A j \in 0..(e.b - 1) : StreamBit(e.from + j) <=> j \in e.v
    [] e.op = "put_var" -> IsVarint(e.v, e.from, e.to)
    [] e.op = "put_var_zero" ->
         /\ StreamBit(e.from) <=> e.v = {}
         /\ e.v # {} => IsVarint(e.v, e.from + 1, e.to)
    [] e.op \in {"align_to_byte", "finish"} ->
         \A n \in e.from..(8 * ((e.from + 7) \div 8) - 1) : ~StreamBit(n)
    [] OTHER -> TRUE

\* C13: finish() after puts totalling B bits leaves the destination with
\* ceil(B/8) bytes holding all B bits in order and zeros in the unused high
\* bits of the last byte, leaves the writer with no pending bit and no
\* buffered byte, and calls the destination's finish once, after the last
\* destination write; align_to_byte() on an aligned writer emits nothing.
C13_FinishDelivers ==
  /\ \A i \in 1..Len(log) :
       log[i].op = "align_to_byte" /\ log[i].pre.bits = 0 => log[i].post = log[i].pre
  /\ pc = "closed" =>
       LET B == log[Len(log)].from
           c == bw.sink.calls
       IN  /\ Len(bw.sink.out) = (B + 7) \div 8
           /\ \A i \in 1..Len(log) : Delivered(log[i])
           /\ bw.bits = 0
           /\ bw.pos = 0
           /\ c[Len(c)].call = "finish"
           /\ \A k \in 1..(Len(c) - 1) : c[k].call # "finish"

\* ------------------------------------------- a reader over any byte range

\* n bytes b
Repeat(b, n) == [i \in 1..n |-> b]

\* the bytes put_var(v); finish() leaves in a VectorSink
VarintBytes(v) == finish(put_var(NewWriter, v)).sink.out

\* The byte ranges decoded: none, one byte, a 64-bit word and a zero byte,
\* the ten groups of 2^64 - 1, eleven groups that all ask for another, and
\* ten such groups followed by a last one.
ScanRanges ==
  {<<>>, <<Five>>, Repeat(0..7, 8) \o <<{}>>, VarintBytes(AllOnes), Repeat({7}, 11),
   Repeat({7}, 10) \o <<One>>}

\* BitReader(p_, end_) over the range mem: br.mem is the memory p and end
\* point into, p and end are offsets into it
InitScan ==
  /\ ndebug = FALSE
  /\ bw = NewWriter
  /\ \E mem \in ScanRanges :
       br = [p |-> 0, end |-> Len(mem), acc |-> {}, bits |-> 0, exc |-> "none", mem |-> mem]
  /\ pc = "scan"
  /\ log = <<>>
  /\ got = <<>>
  /\ zc = NewCompressor(NewVectorSink)

\* A call on the reader, recorded with the reader before and after it.  The
\* caller may catch the exception and call again.
Scan(op, b, g) ==
  /\ pc = "scan"
  /\ Len(got) < MaxReads
  /\ br' = g.r
  /\ got' = Append(got, [op |-> op, b |-> b, v |-> g.v, exc |-> g.r.exc,
                         pre |-> br, post |-> g.r])
  /\ UNCHANGED <<ndebug, bw, pc, log, zc>>

\* the reader as a call finds it: no exception is in flight
Called == [br EXCEPT !.exc = "none"]

ScanGet(b) == \E sh \in Shr64Outcomes : Scan("get", b, get(br.mem, Called, b, sh))

ScanGetVar64 == Scan("get_var64", 0, get_var64(br.mem, Called))

ScanGetVar64Zero == Scan("get_var64_zero", 0, get_var64_zero(br.mem, Called))

ScanGetVar64SignZero == Scan("get_var64_sign_zero", 0, get_var64_sign_zero(br.mem, Called))

ScanGetVar64DecZeros == Scan("get_var64_dec_zeros", 0, get_var64_dec_zeros(br.mem, Called))

ScanGetVar64SignDecZeros ==
  Scan("get_var64_sign_dec_zeros", 0, get_var64_sign_dec_zeros(br.mem, Called))

ScanWidths == {0, 1, 3, 8, 58, 64}

NextScan ==
  \/ \E b \in ScanWidths : ScanGet(b)
  \/ ScanGetVar64
  \/ ScanGetVar64Zero
  \/ ScanGetVar64SignZero
  \/ ScanGetVar64DecZeros
  \/ ScanGetVar64SignDecZeros

SpecScan == InitScan /\ [][NextScan]_vars

\* the bits of reader r not handed out yet: pending in the accumulator and
\* in the bytes from p to end
Unread(r) == r.bits + 8 * (r.end - r.p)

\* C14: get(width), 1 <= width <= 64, fails with the underflow condition
\* if and only if fewer than width bits remain unread, as get(1) on an empty
\* range does; get(0) returns 0, consumes nothing and never fails.
C14_Underflow ==
  \A i \in 1..Len(got) :
    got[i].op = "get" =>
      /\ got[i].b >= 1 =>
           /\ got[i].exc = "bitstream underflow" <=> Unread(got[i].pre) < got[i].b
           /\ got[i].exc \in {"none", "bitstream underflow"}
      /\ got[i].b = 0 =>
           /\ got[i].exc = "none"
           /\ got[i].v = {}
           /\ got[i].post = [got[i].pre EXCEPT !.exc = "none"]

C14_Witness ==
  /\ \E i \in 1..Len(got) :
       /\ got[i].op = "get"
       /\ got[i].b = 1
       /\ got[i].pre.end = 0
       /\ got[i].exc = "bitstream underflow"
  /\ \E i \in 1..Len(got) :
       /\ got[i].op = "get"
       /\ got[i].b = 0
       /\ got[i].exc = "none"

\* bit n of the byte range mem
MemBit(mem, n) == (n % 8) \in mem[(n \div 8) + 1]

\* bit n of what reader r has not handed out yet
UnreadBit(r, n) ==
  IF n < r.bits THEN n \in r.acc ELSE MemBit(r.mem, 8 * r.p + (n - r.bits))

\* group k of 8 unread bits
Group(r, k) == {j \in 0..7 : UnreadBit(r, 8 * k + j)}

\* the accumulator of r holds nothing above its pending bits
Clean(r) == r.acc \subseteq 0..(r.bits - 1)

\* the 7-bit payloads of groups 0..c, as a 64-bit value
RECURSIVE Payload(_, _)
Payload(r, c) ==
  Shl(Group(r, c) \cap 0..6, 7 * c) \cup (IF c = 0 THEN {} ELSE Payload(r, c - 1))

\* the whole groups reader r has left, and those among the first ten whose
\* continuation bit is clear
Whole(r) == Unread(r) \div 8

Stops(r) == {k \in 0..(Min(Whole(r), 10) - 1) : 7 \notin Group(r, k)}

Consumed(e) == bits_read(e.post) - bits_read(e.pre)

\* C15 as stated: get_var64() reports a malformed varint only when the
\* chain has more than 10 continuation bytes.
C15_MoreThanTenContinuations ==
  \A i \in 1..Len(got) :
    got[i].op = "get_var64" /\ Clean(got[i].pre) /\ got[i].exc = "bad varint" =>
      /\ Whole(got[i].pre) >= 11
      /\ \A k \in 0..10 : 7 \in Group(got[i].pre, k)

\* C15: get_var64() consumes at most 10 groups of 8 bits; it returns at the
\* first group whose continuation bit is clear, with the payloads read so
\* far; it reports a malformed varint when the tenth group still has its
\* continuation bit set, and underflow when the range ends before that; the
\* ten groups put_var writes for 2^64 - 1 are accepted.
C15_VarintTermination ==
  \A i \in 1..Len(got) :
    got[i].op = "get_var64" /\ Clean(got[i].pre) =>
      LET r == got[i].pre
      IN  /\ Consumed(got[i]) <= 80
          /\ IF Stops(r) # {}
             THEN LET c == CHOOSE k \in Stops(r) : \A m \in Stops(r) : k <= m
                  IN  /\ got[i].exc = "none"
                      /\ Consumed(got[i]) = 8 * (c + 1)
                      /\ got[i].v = Payload(r, c)
             ELSE IF Whole(r) >= 10
                  THEN got[i].exc = "bad varint" /\ Consumed(got[i]) = 80
                  ELSE got[i].exc = "bitstream underflow"
          /\ r.mem = VarintBytes(AllOnes) /\ r.p = 0 /\ r.bits = 0 =>
               got[i].exc = "none" /\ got[i].v = AllOnes

C15_Witness ==
  \E i \in 1..Len(got) :
    /\ got[i].op = "get_var64"
    /\ got[i].pre.mem = Repeat({7}, 10) \o <<One>>
    /\ got[i].pre.p = 0
    /\ got[i].exc = "bad varint"
    /\ got[i].post.p = 10

\* the pending bits of r are the last bits consumed from the range and not
\* handed out, least significant first, and the accumulator holds no other
Pending(r) == {j \in 0..(r.bits - 1) : MemBit(r.mem, 8 * r.p - r.bits + j)}

\* C19: after every BitReader call, successful or failed, the read pointer
\* is at most end, the pending bit count is in 0..7, and the accumulator
\* holds exactly the consumed bits not yet returned (accumulator < 2^bits).
C19_ReaderInvariant ==
  \A i \in 1..Len(got) :
    LET r == got[i].post
    IN  /\ r.p <= r.end
        /\ r.bits \in 0..7
        /\ r.acc = Pending(r)

\* ------------------------------------------ a writer on a RawBufferSink

\* RawBufferSink(p, c) over a buffer of c bytes
NewRawBufferSink(c) ==
  [kind |-> "RawBufferSink", dst |-> [i \in 0..(c - 1) |-> {}], cap |-> c, pos |-> 0,
   calls |-> <<>>]

\* capacities below one block of the writer, between one and two, above two
RawCaps == {kBufCap - 1, kBufCap + 2, 2 * kBufCap + 1}

InitRaw ==
  /\ ndebug = FALSE
  /\ \E c \in RawCaps : bw = WriterOn(NewRawBufferSink(c))
  /\ br = [p |-> 0, end |-> 0, acc |-> {}, bits |-> 0, exc |-> "none"]
  /\ pc = "write"
  /\ log = <<>>
  /\ got = <<>>
  /\ zc = NewCompressor(NewVectorSink)

\* the caller writes n bytes to the sink itself
SinkWrite(n) ==
  LET s  == RawBufferSink_write(bw.sink, Repeat(0..7, n))
      w1 == [bw EXCEPT !.sink = s.sink]
  IN  /\ pc = "write"
      /\ Len(log) < MaxCalls
      /\ bw' = w1
      /\ log' = Append(log, [op |-> "sink.write", v |-> {}, b |-> n, based |-> FALSE,
                             base |-> {}, ret |-> {}, thrown |-> s.exc,
                             from |-> bits_written(bw), to |-> bits_written(w1),
                             pre |-> bw, post |-> w1])
      /\ UNCHANGED <<ndebug, br, pc, got, zc>>

SinkWriteSizes == {0, 1, 2, kBufCap}

NextRaw ==
  \/ \E p \in LifePuts : CallPut(p[1], p[2])
  \/ CallFlush
  \/ CallFinish
  \/ \E n \in SinkWriteSizes : SinkWrite(n)

SpecRaw == InitRaw /\ [][NextRaw]_vars

\* C18: RawBufferSink::write of n bytes with pos + n > cap fails with the
\* overflow condition and writes nothing (pos and the buffer are as before);
\* pos <= cap in every state and no byte is stored beyond the capacity,
\* whether the bytes come in one call or in several.
C18_RawOverflow ==
  /\ bw.sink.pos <= bw.sink.cap
  /\ DOMAIN bw.sink.dst = 0..(bw.sink.cap - 1)
  /\ \A i \in 1..Len(log) :
       log[i].op = "sink.write" =>
         LET a == log[i].pre.sink
             z == log[i].post.sink
             n == log[i].b
         IN  /\ log[i].thrown = "RawBufferSink overflow" <=> a.pos + n > a.cap
             /\ log[i].thrown \in {"none", "RawBufferSink overflow"}
             /\ log[i].thrown # "none" => z.pos = a.pos /\ z.dst = a.dst
             /\ log[i].thrown = "none" =>
                  /\ z.pos = a.pos + n
                  /\ \A k \in 0..(a.cap - 1) :
                       z.dst[k] = IF k >= a.pos /\ k < a.pos + n THEN 0..7 ELSE a.dst[k]

C18_Witness ==
  /\ \E i \in 1..Len(log) :
       /\ log[i].op = "sink.write"
       /\ log[i].b = 1
       /\ log[i].pre.sink.pos = log[i].pre.sink.cap
       /\ log[i].thrown = "RawBufferSink overflow"
  /\ \E i \in 1..Len(log) :
       /\ log[i].op = "sink.write"
       /\ log[i].b = 2
       /\ log[i].thrown = "none"

\* bytes the sink accepted in the calls made on the writer
RECURSIVE AcceptedFromWriter(_)
AcceptedFromWriter(l) ==
  IF l = <<>> THEN 0
  ELSE (IF l[1].op = "sink.write" THEN 0 ELSE l[1].post.sink.pos - l[1].pre.sink.pos)
       + AcceptedFromWriter(Tail(l))

\* the ISink calls made during the call recorded as e
CallsOf(e) == SubSeq(e.post.sink.calls, Len(e.pre.sink.calls) + 1, Len(e.post.sink.calls))

\* C20: between public operations of a BufferedBitWriter, whether or not a
\* destination write has failed, pos < kBufCap and total_sz is the number
\* of bytes the destination accepted from the writer; a put writes to the
\* destination only blocks of exactly kBufCap bytes.
C20_WriterBounds ==
  /\ bw.pos < kBufCap
  /\ bw.total_sz = AcceptedFromWriter(log)
  /\ \A i \in 1..Len(log) :
       log[i].op = "put" =>
         \A k \in 1..Len(CallsOf(log[i])) :
           CallsOf(log[i])[k] = [call |-> "write", n |-> kBufCap]

\* --------------------------------------------- the compressor's calls

InitZstd ==
  /\ ndebug = FALSE
  /\ bw = NewWriter
  /\ br = [p |-> 0, end |-> 0, acc |-> {}, bits |-> 0, exc |-> "none"]
  /\ pc = "compress"
  /\ log = <<>>
  /\ got = <<>>
  /\ zc = NewCompressor(NewVectorSink)

\* a call may start when none is in progress and none has failed
Idle == pc = "compress" /\ zc.op = "idle" /\ Len(zc.hist) < MaxZCalls

\* write(data, n) up to the end of the first iteration of its loop
ZWrite(n) ==
  /\ Idle
  /\ zc' \in write_iteration(enter(zc, "write", n))
  /\ UNCHANGED <<ndebug, bw, br, pc, log, got>>

\* the next iteration of the loop of write
ZWriteLoop ==
  /\ zc.op = "write"
  /\ zc' \in write_iteration(zc)
  /\ UNCHANGED <<ndebug, bw, br, pc, log, got>>

ZFlush ==
  /\ Idle
  /\ zc' \in flush_iteration(enter(zc, "flush", 0))
  /\ UNCHANGED <<ndebug, bw, br, pc, log, got>>

ZFlushLoop ==
  /\ zc.op = "flush"
  /\ zc' \in flush_iteration(zc)
  /\ UNCHANGED <<ndebug, bw, br, pc, log, got>>

ZFinish ==
  /\ Idle
  /\ zc' \in finish_iteration(enter(zc, "finish", 0))
  /\ UNCHANGED <<ndebug, bw, br, pc, log, got>>

ZFinishLoop ==
  /\ zc.op = "finish"
  /\ zc' \in finish_iteration(zc)
  /\ UNCHANGED <<ndebug, bw, br, pc, log, got>>

NextZstd ==
  \/ \E n \in 0..MaxBlock : ZWrite(n)
  \/ ZWriteLoop
  \/ ZFlush
  \/ ZFlushLoop
  \/ ZFinish
  \/ ZFinishLoop

SpecZstd == InitZstd /\ [][NextZstd]_vars

\* A call that has entered its loop goes on: the thread making the call
\* runs the next iteration.  Nothing makes the engine report an error, so
\* the iterations that must happen are those of an engine that reports none.
SpecZstdLive ==
  /\ InitZstd
  /\ [][NextZstd]_vars
  /\ WF_vars(ZWriteLoop /\ zc'.op # "failed")
  /\ WF_vars(ZFlushLoop /\ zc'.op # "failed")
  /\ WF_vars(ZFinishLoop /\ zc'.op # "failed")

\* the bytes passed to the downstream write in the calls c
RECURSIVE Written(_)
Written(c) ==
  IF c = <<>> THEN 0
  ELSE (IF c[1].call = "write" THEN c[1].n ELSE 0) + Written(Tail(c))

\* downstream calls of kind k among the calls c
Count(c, k) == Cardinality({i \in 1..Len(c) : c[i].call = k})

\* the downstream holds every byte the engine has emitted, once, in the
\* order of emission
AllDownstream == zc.down.out = [i \in 1..zc.emitted |-> i]

\* what holds of a write that has returned, and of the bytes emitted
WriteReturns ==
  /\ AllDownstream
  /\ \A i \in 1..Len(zc.hist) :
       LET h == zc.hist[i]
       IN  h.op = "write" /\ h.exc = "none" =>
             /\ h.pos = h.size
             /\ h.last < kOutCap
             /\ Written(h.calls) = h.to - h.from
             /\ Count(h.calls, "write") = Len(h.calls)

\* C16: write(block), with an engine that makes progress on every step,
\* terminates; it returns only when the whole block is consumed and the
\* last drain did not fill the staging buffer; every byte the engine
\* emitted has been passed to the downstream write, in order, exactly once.
C16_WriteDrains ==
  /\ []WriteReturns
  /\ (zc.op = "write") ~> (zc.op # "write")

C16_Witness ==
  \E i \in 1..Len(zc.hist) :
    LET h == zc.hist[i]
    IN  /\ h.op = "write"
        /\ h.exc = "none"
        /\ h.size = MaxBlock
        /\ Len(h.calls) >= 2
        /\ h.calls[1].n = kOutCap

\* C17: finish() calls the downstream finish() once, after the engine in
\* end mode has returned 0 and all it emitted has been written downstream;
\* flush() calls the downstream flush() after a drain in flush mode that
\* did not fill the staging buffer; when the engine reports an error the
\* operation calls neither.
C17_FlushFinishOrder ==
  /\ AllDownstream
  /\ zc.op \in {"flush", "finish"} =>
       LET c == SubSeq(zc.down.calls, zc.d0 + 1, Len(zc.down.calls))
       IN  Count(c, "write") = Len(c)
  /\ \A i \in 1..Len(zc.hist) :
       LET h == zc.hist[i]
           n == Len(h.calls)
       IN  /\ h.op = "finish" /\ h.exc = "none" =>
                /\ h.rc = 0
                /\ h.calls[n].call = "finish"
                /\ Count(h.calls, "finish") = 1
                /\ Count(h.calls, "write") = n - 1
                /\ Written(h.calls) = h.to - h.from
           /\ h.op = "flush" /\ h.exc = "none" =>
                /\ h.last < kOutCap
                /\ h.calls[n].call = "flush"
                /\ Count(h.calls, "flush") = 1
                /\ Count(h.calls, "write") = n - 1
                /\ Written(h.calls) = h.to - h.from
           /\ h.exc # "none" => Count(h.calls, "write") = n

C17_Witness ==
  \E i \in 1..Len(zc.hist) :
    /\ zc.hist[i].op = "finish"
    /\ zc.hist[i].exc = "none"
    /\ Len(zc.hist[i].calls) >= 3
    /\ zc.hist[i].calls[1].n = kOutCap
====
